---- MODULE Spec2Model ----
(***************************************************************************)
(* SpecForge: the Eagle3 draft model for Qwen3 (qwen3_eagle.py) and the    *)
(* JSONL sampler (jsonl_sample.py).                                         *)
(*                                                                          *)
(* The specifications share the variables of this module:                   *)
(*   SpecSampler  one run of sample_fixed_size or sample_fraction           *)
(*   SpecRerun    a run of the sampler and a second run on the same input   *)
(*   SpecModel    construction of Qwen3ForCausalLMEagle3 and calls of its   *)
(*                forward and project_hidden_states                         *)
(*   SpecAttn     a rollout of attention steps through one backend,         *)
(*                Qwen3Attention or Qwen3FlexAttention                      *)
(* Tensors are modelled by their shapes and by the provenance of their      *)
(* entries (which call and token produced a key, at which rotary position). *)
(***************************************************************************)
EXTENDS Integers, Sequences, FiniteSets, TLC

VARIABLES
    \* ---- jsonl_sample.py
    input,        \* the lines of the input file, in file order
    out_file,     \* the output file: whether it exists, and its lines
    args,         \* the arguments of the running call
    pc,           \* position of the sampler
    reservoir,    \* sample_fixed_size: list of (position, raw_line)
    total_seen,
    valid_seen,
    written,      \* sample_fraction: lines written so far
    next_line,    \* 1-based position of the next line iter_lines yields
    draws,        \* the random draws made by the call so far (history)
    returned,     \* the tuple the call returned, <<>> before it returns
    rng,          \* state of the module-level generator of random
    tape,         \* the values the generator has served, by seed and requests
    prev,         \* arguments and results of the previous call on this input
    printed,      \* the count of written lines in main's summary
    \* ---- qwen3_eagle.py, Qwen3ForCausalLMEagle3
    model,        \* "none", "constructed", "construct_error"
    config,       \* [hidden_size, target_hidden_size] of the constructed model
    self_attn,    \* backend held by the decoder layer
    fc_in,        \* in_features of the fusion projection fc
    last_cache,   \* the cache object of the latest forward call, after the call
    fwd,          \* record of the latest forward call
    n_forward,    \* number of forward calls made (bounded)
    proj,         \* record of the latest project_hidden_states call
    \* ---- qwen3_eagle.py, attention rollout
    cache_hidden, \* <<key list, value list>> owned by the caller of the layer
    paged_len,    \* get_seq_length() of the external paged cache
    steps,        \* history of the attention calls of the rollout
    attn          \* outcome of the latest attention call

sampler_vars == <<input, out_file, args, pc, reservoir, total_seen, valid_seen,
                  written, next_line, draws, returned, rng, tape, prev, printed>>
model_vars == <<model, config, self_attn, fc_in, last_cache, fwd, n_forward, proj>>
attn_vars == <<cache_hidden, paged_len, steps, attn>>
vars == <<sampler_vars, model_vars, attn_vars>>


\* ---------------------------------------------------------------- bounds
MaxLines == 3
MaxSize == 3
FracDen == 2

Min(a, b) == IF a <= b THEN a ELSE b

(***************************************************************************)
(*                            jsonl_sample.py                              *)
(***************************************************************************)
\* Raw lines a file may hold: two JSON documents and two that json.loads rejects.
LineTexts == {"{}", "7", "{x", ""}

\* validate_jsonl_line: True iff json.loads(raw_line) does not raise.
validate_jsonl_line(raw_line) == raw_line \in {"{}", "7"}

\* random.randint(a, b): any integer of a..b.
RandInt(a, b) == a..b

\* --seed defaults to 42; a second seed stands for any other.
DefaultSeed == 42
Seeds == {DefaultSeed, 7}

\* The generator is a deterministic function of the seed it was last given and
\* of the requests it has served since: n for randint(1, n), 0 for random().
Seeded(seed) == [seed |-> seed, reqs |-> <<>>]

\* States the generator may be in when the sampler is called: seeded by
\* anyone, with or without a draw made since.
RngStates == {[seed |-> s, reqs |-> r] : s \in Seeds, r \in {<<>>, <<0>>}}

\* random.seed(seed), lines 45 and 88.
RandomSeedSkipped(gen, seed) == gen
RandomSeed(gen, seed) == Seeded(seed)

\* The entry of the tape that request n of generator gen reads.
TapeKey(gen, n) == <<gen.seed, Append(gen.reqs, n)>>
Served(key) == {e.val : e \in {x \in tape : x.key = key}}

\* The generator after serving request n with value v.
Advance(gen, n) == [gen EXCEPT !.reqs = Append(@, n)]
\* What request n returns: the value the tape holds for it, else any value of
\* the request's range.
DrawFrom(gen, n, range) ==
    IF Served(TapeKey(gen, n)) # {} THEN Served(TapeKey(gen, n)) ELSE range
Record(gen, n, v) == tape \cup {[key |-> TapeKey(gen, n), val |-> v]}

\* sample_fixed_size line 53 / sample_fraction line 98: the line is skipped.
SkippedAlways(validate, raw) == FALSE
Skipped(validate, raw) == validate /\ ~validate_jsonl_line(raw)

RECURSIVE InsertByPos(_, _)
InsertByPos(item, sorted) ==
    IF sorted = <<>> THEN <<item>>
    ELSE IF item[1] < Head(sorted)[1] THEN <<item>> \o sorted
    ELSE <<Head(sorted)>> \o InsertByPos(item, Tail(sorted))

RECURSIVE SortRec(_)
SortRec(list) ==
    IF list = <<>> THEN <<>> ELSE InsertByPos(Head(list), SortRec(Tail(list)))

\* reservoir.sort(key=lambda x: x[0])
SortUnsorted(list) == list
SortByPos(list) == SortRec(list)

\* lines 57-62: the reservoir after a valid line at position pos, draw j.
ReservoirStep(res, sample_size, pos, raw, j) ==
    IF Len(res) < sample_size THEN Append(res, <<pos, raw>>)
    ELSE IF j <= sample_size THEN [res EXCEPT ![j] = <<pos, raw>>]
    ELSE res

NoArgs == [mode |-> "none", sample_size |-> 0, num |-> 0, seed |-> 0,
           validate |-> FALSE]
FixedArgs(sample_size, seed, validate) ==
    [mode |-> "fixed", sample_size |-> sample_size, num |-> 0, seed |-> seed,
     validate |-> validate]
FractionArgs(num, seed, validate) ==
    [mode |-> "fraction", sample_size |-> 0, num |-> num, seed |-> seed,
     validate |-> validate]
NoPrev == [valid |-> FALSE, args |-> NoArgs, lines |-> <<>>, returned |-> <<>>]
Absent == [exists |-> FALSE, lines |-> <<>>]
File(lines) == [exists |-> TRUE, lines |-> lines]

SamplerIdle ==
    /\ input = <<>> /\ out_file = Absent /\ args = NoArgs /\ pc = "idle"
    /\ reservoir = <<>> /\ total_seen = 0 /\ valid_seen = 0 /\ written = 0
    /\ next_line = 1 /\ draws = <<>> /\ returned = <<>>
    /\ rng = Seeded(DefaultSeed) /\ tape = {} /\ prev = NoPrev /\ printed = 0

\* Before the call: any input file of at most MaxLines lines; the output path
\* names no file or a file left by an earlier run; the generator is in any
\* state.
SamplerStart ==
    /\ input \in UNION {[1..n -> LineTexts] : n \in 0..MaxLines}
    /\ out_file \in {Absent, File(<<"stale">>)}
    /\ args = NoArgs /\ pc = "start"
    /\ reservoir = <<>> /\ total_seen = 0 /\ valid_seen = 0 /\ written = 0
    /\ next_line = 1 /\ draws = <<>> /\ returned = <<>>
    /\ rng \in RngStates /\ tape = {} /\ prev = NoPrev /\ printed = 0

\* Before the first of two runs: an input file of lines that parse and lines
\* that do not, no output file yet.
RerunTexts == {"{}", "{x"}
RerunStart ==
    /\ input \in UNION {[1..n -> RerunTexts] : n \in 0..MaxLines}
    /\ out_file = Absent
    /\ args = NoArgs /\ pc = "start"
    /\ reservoir = <<>> /\ total_seen = 0 /\ valid_seen = 0 /\ written = 0
    /\ next_line = 1 /\ draws = <<>> /\ returned = <<>>
    /\ rng \in RngStates /\ tape = {} /\ prev = NoPrev /\ printed = 0

\* sample_fixed_size, lines 45-49: seed, empty reservoir, zero counters.
StartFixed(sample_size, seed, validate) ==
    /\ pc = "start"
    /\ args' = FixedArgs(sample_size, seed, validate)
    /\ rng' = RandomSeed(rng, seed)
    /\ reservoir' = <<>> /\ valid_seen' = 0 /\ total_seen' = 0
    /\ next_line' = 1 /\ draws' = <<>>
    /\ pc' = "fixed_loop"
    /\ UNCHANGED <<input, out_file, written, returned, tape, prev, printed>>
    /\ UNCHANGED <<model_vars, attn_vars>>

\* sample_fixed_size, lines 51-62: one iteration of the loop over iter_lines.
FixedLine ==
    /\ pc = "fixed_loop" /\ next_line <= Len(input)
    /\ LET pos == next_line
           raw == input[pos]
       IN /\ total_seen' = total_seen + 1
          /\ next_line' = next_line + 1
          /\ IF Skipped(args.validate, raw)
             THEN UNCHANGED <<valid_seen, reservoir, draws, rng, tape>>
             ELSE /\ valid_seen' = valid_seen + 1
                  /\ IF Len(reservoir) < args.sample_size
                     THEN /\ reservoir' = ReservoirStep(reservoir, args.sample_size, pos, raw, 0)
                          /\ UNCHANGED <<draws, rng, tape>>
                     ELSE LET n == valid_seen + 1
                          IN \E j \in DrawFrom(rng, n, RandInt(1, n)) :
                               /\ reservoir' = ReservoirStep(reservoir, args.sample_size, pos, raw, j)
                               /\ draws' = Append(draws, j)
                               /\ rng' = Advance(rng, n)
                               /\ tape' = Record(rng, n, j)
    /\ UNCHANGED <<input, out_file, args, pc, written, returned, prev, printed>>
    /\ UNCHANGED <<model_vars, attn_vars>>

\* sample_fixed_size, lines 64-72: sort, write the output file, return.
FixedFinish ==
    /\ pc = "fixed_loop" /\ next_line > Len(input)
    /\ LET sorted == SortByPos(reservoir)
       IN /\ reservoir' = sorted
          /\ out_file' = File([i \in 1..Len(sorted) |-> sorted[i][2]])
    /\ returned' = <<total_seen, valid_seen>>
    /\ pc' = "done"
    /\ UNCHANGED <<input, args, total_seen, valid_seen, written, next_line, draws,
                   rng, tape, prev, printed>>
    /\ UNCHANGED <<model_vars, attn_vars>>

\* The fraction argument is num/FracDen; line 87 asserts 0.0 < fraction <= 1.0.
FractionInRange(num) == 0 < num /\ num <= FracDen

\* random.random() lies in [0, 1): draw r stands for [r/FracDen, (r+1)/FracDen).
RandomUnit == 0..(FracDen - 1)

\* line 101: random.random() < fraction
DrawKeepsInclusive(r, num) == r <= num
DrawKeeps(r, num) == r < num

\* sample_fraction, lines 87-95: assert, seed, zero counters, open the output "w".
StartFraction(num, seed, validate) ==
    /\ pc = "start"
    /\ args' = FractionArgs(num, seed, validate)
    /\ IF ~FractionInRange(num)
       THEN /\ pc' = "assert_error"
            /\ UNCHANGED <<out_file, total_seen, valid_seen, written, next_line, draws,
                           rng>>
       ELSE /\ pc' = "fraction_loop"
            /\ rng' = RandomSeed(rng, seed)
            /\ total_seen' = 0 /\ valid_seen' = 0 /\ written' = 0
            /\ next_line' = 1 /\ draws' = <<>>
            /\ out_file' = File(<<>>)
    /\ UNCHANGED <<input, reservoir, returned, tape, prev, printed>>
    /\ UNCHANGED <<model_vars, attn_vars>>

\* sample_fraction, lines 96-103: one iteration of the loop over iter_lines.
FractionLine ==
    /\ pc = "fraction_loop" /\ next_line <= Len(input)
    /\ LET raw == input[next_line]
       IN /\ total_seen' = total_seen + 1
          /\ next_line' = next_line + 1
          /\ IF Skipped(args.validate, raw)
             THEN UNCHANGED <<valid_seen, out_file, written, draws, rng, tape>>
             ELSE /\ valid_seen' = valid_seen + 1
                  /\ \E r \in DrawFrom(rng, 0, RandomUnit) :
                       /\ draws' = Append(draws, r)
                       /\ rng' = Advance(rng, 0)
                       /\ tape' = Record(rng, 0, r)
                       /\ IF DrawKeeps(r, args.num)
                          THEN /\ out_file' = File(Append(out_file.lines, raw))
                               /\ written' = written + 1
                          ELSE UNCHANGED <<out_file, written>>
    /\ UNCHANGED <<input, args, pc, reservoir, returned, prev, printed>>
    /\ UNCHANGED <<model_vars, attn_vars>>

\* sample_fraction, line 105: the file is closed and the counts returned.
FractionFinish ==
    /\ pc = "fraction_loop" /\ next_line > Len(input)
    /\ returned' = <<total_seen, valid_seen, written>>
    /\ pc' = "done"
    /\ UNCHANGED <<input, out_file, args, reservoir, total_seen, valid_seen, written,
                   next_line, draws, rng, tape, prev, printed>>
    /\ UNCHANGED <<model_vars, attn_vars>>

\* main, lines 144-147 and 155-158: the summary printed after the call returns.
MainPrint ==
    /\ pc = "done"
    /\ printed' = IF args.mode = "fixed"
                  THEN Min(args.sample_size, returned[2])
                  ELSE returned[3]
    /\ pc' = "exit"
    /\ UNCHANGED <<input, out_file, args, reservoir, total_seen, valid_seen, written,
                   next_line, draws, returned, rng, tape, prev>>
    /\ UNCHANGED <<model_vars, attn_vars>>

\* The sampler is called once more on the same input file, with the output of
\* the first call in place; the generator is again in any state.
Rerun ==
    /\ pc = "done" /\ ~prev.valid
    /\ prev' = [valid |-> TRUE, args |-> args, lines |-> out_file.lines,
                returned |-> returned]
    /\ rng' \in RngStates
    /\ pc' = "start"
    /\ UNCHANGED <<input, out_file, args, reservoir, total_seen, valid_seen, written,
                   next_line, draws, returned, tape, printed>>
    /\ UNCHANGED <<model_vars, attn_vars>>

Sizes == -1..MaxSize
Fractions == 0..(FracDen + 1)

SamplerNext ==
    \/ \E sample_size \in Sizes, seed \in Seeds, validate \in BOOLEAN :
         StartFixed(sample_size, seed, validate)
    \/ FixedLine
    \/ FixedFinish
    \/ \E num \in Fractions, seed \in Seeds, validate \in BOOLEAN :
         StartFraction(num, seed, validate)
    \/ FractionLine
    \/ FractionFinish
    \/ MainPrint

\* The second run takes the arguments of the first.
Repeats(a) == ~prev.valid \/ a = prev.args

RerunNext ==
    \/ \E sample_size \in Sizes, seed \in Seeds, validate \in BOOLEAN :
         /\ Repeats(FixedArgs(sample_size, seed, validate))
         /\ StartFixed(sample_size, seed, validate)
    \/ FixedLine
    \/ FixedFinish
    \/ \E num \in Fractions, seed \in Seeds, validate \in BOOLEAN :
         /\ Repeats(FractionArgs(num, seed, validate))
         /\ StartFraction(num, seed, validate)
    \/ FractionLine
    \/ FractionFinish
    \/ Rerun


(***************************************************************************)
(*                  qwen3_eagle.py: the attention backends                 *)
(*                                                                          *)
(* A key tensor [batch, heads, len, head_dim] is [call, len, rot]: the call *)
(* that produced it, its sequence length, and the rotary position of each   *)
(* of its tokens.  A value tensor is [call, len].  A matrix of attention    *)
(* weights [.., rows, cols] is a sequence of rows of entries; an entry      *)
(* records the query token and the key it scores, and whether the additive  *)
(* mask put -inf on it.  An operation that raises yields Fail(kind), with   *)
(* kind "shape_error" (RuntimeError on sizes), "type_error", "index_error"  *)
(* or "attribute_error".                                                    *)
(***************************************************************************)
MaxQLen == 3
MaxSteps == 3

Ok(m) == [err |-> "", m |-> m]
Fail(e) == [err |-> e, m |-> <<>>]
Rows(W) == Len(W)
Cols(W) == IF Len(W) = 0 THEN 0 ELSE Len(W[1])

\* torch broadcasting of one dimension; 0 when the sizes cannot be broadcast.
Bc(a, b) == IF a = b THEN a ELSE IF a = 1 THEN b ELSE IF b = 1 THEN a ELSE 0

NoneCache == [is_none |-> TRUE, keys |-> <<>>, values |-> <<>>]
EmptyCache == [is_none |-> FALSE, keys |-> <<>>, values |-> <<>>]

\* Qwen3ForCausalLMEagle3.forward lines 424-425: arange(0, seq_length).
PositionIds(seq_length) == [t \in 1..seq_length |-> t - 1]

\* rotary_emb(query_states, position_ids + lck): the position each token is rotated at.
RotaryNoOffset(position_ids, lck) == position_ids
Rotary(position_ids, lck) == [t \in DOMAIN position_ids |-> position_ids[t] + lck]

\* An additive attention mask [batch, 1, rows, cols] holding the causal pattern:
\* -inf above the diagonal.  none: the caller passed attention_mask=None.
NoMask == [none |-> TRUE, rows |-> 0, cols |-> 0]
Mask(rows, cols) == [none |-> FALSE, rows |-> rows, cols |-> cols]
MaskedAt(mask, t, s) ==
    LET tt == IF mask.rows = 1 THEN 1 ELSE t
        ss == IF mask.cols = 1 THEN 1 ELSE s
    IN ss > tt

\* line 189 (and 207 before the append): the cache depth.
CacheDepth(cache) == Len(cache.keys)

\* lines 197-198: cache_hidden[0] + [key_states], cache_hidden[1] + [value_states]
AppendStepFront(cache, key, value) ==
    [cache EXCEPT !.keys = <<key>> \o @, !.values = <<value>> \o @]
AppendStep(cache, key, value) ==
    [cache EXCEPT !.keys = Append(@, key), !.values = Append(@, value)]

\* line 206: torch.matmul(query_states, k0.transpose(2, 3)), one column per token of k0.
MatMulQK(q_len, k0) ==
    [t \in 1..q_len |->
        [s \in 1..k0.len |->
            [q |-> t, kcall |-> k0.call, ktok |-> s, krot |-> k0.rot[s],
             masked |-> FALSE]]]

\* line 209: attn_weights + attention_mask, with broadcasting.
AddMask(W, mask) ==
    IF mask.none THEN Fail("type_error")
    ELSE LET r == Bc(Rows(W), mask.rows)
             c == Bc(Cols(W), mask.cols)
         IN IF r = 0 \/ c = 0 THEN Fail("shape_error")
            ELSE Ok([t \in 1..r |->
                      [s \in 1..c |->
                         [W[IF Rows(W) = 1 THEN 1 ELSE t][IF Cols(W) = 1 THEN 1 ELSE s]
                            EXCEPT !.masked = MaskedAt(mask, t, s)]]])

\* line 216: (qi * kiq).sum(-1), the elementwise product broadcast over the tokens.
ElemDot(q_len, ki) ==
    LET n == Bc(q_len, ki.len)
    IN IF n = 0 THEN Fail("shape_error")
       ELSE Ok([t \in 1..n |->
                 LET kt == IF ki.len = 1 THEN 1 ELSE t
                 IN [q |-> IF q_len = 1 THEN 1 ELSE t, kcall |-> ki.call, ktok |-> kt,
                     krot |-> ki.rot[kt], masked |-> FALSE]])

\* line 217: torch.cat((attn_weights, attn_weightsi[..., None]), dim=-1)
CatColumn(W, vec) ==
    IF Rows(W) # Len(vec) THEN Fail("shape_error")
    ELSE Ok([t \in 1..Rows(W) |-> Append(W[t], vec[t])])

\* lines 211-217: the loop over the cached steps 1..lck-1 (list index i, 1-based).
RECURSIVE WeightsLoop(_, _, _, _)
WeightsLoop(W, q_len, cache_k, i) ==
    IF i > Len(cache_k) THEN Ok(W)
    ELSE LET d == ElemDot(q_len, cache_k[i])
         IN IF d.err # "" THEN d
            ELSE LET c == CatColumn(W, d.m)
                 IN IF c.err # "" THEN c
                    ELSE WeightsLoop(c.m, q_len, cache_k, i + 1)

\* line 220: attn_weights[..., :q_len]; a slice past the end is clamped.
AttnWeights0(W, q_len) ==
    [t \in 1..Rows(W) |-> SubSeq(W[t], 1, Min(q_len, Cols(W)))]

\* A term of the output: the weight entry and the value token it multiplies.
Term(e, vcall, vtok) ==
    [q |-> e.q, kcall |-> e.kcall, ktok |-> e.ktok, krot |-> e.krot,
     masked |-> e.masked, vcall |-> vcall, vtok |-> vtok]

\* line 222: torch.matmul(attn_weights0, v0); the contracted sizes must be equal.
MatMulAVBroadcast(A, v0) ==
    LET n == Bc(Cols(A), v0.len)
    IN IF n = 0 THEN Fail("shape_error")
       ELSE Ok([t \in 1..Rows(A) |->
                 {Term(A[t][IF Cols(A) = 1 THEN 1 ELSE s], v0.call,
                       IF v0.len = 1 THEN 1 ELSE s) : s \in 1..n}])
MatMulAV(A, v0) ==
    IF Cols(A) # v0.len THEN Fail("shape_error")
    ELSE Ok([t \in 1..Rows(A) |-> {Term(A[t][s], v0.call, s) : s \in 1..Cols(A)}])

\* line 226: the column of the softmax weights read for cached step i (1-based
\* list index i, so the code's q_len + i - 1 counted from 0 is q_len + i - 1 from 1).
WeightColumnShifted(q_len, i) == q_len + i
WeightColumn(q_len, i) == q_len + i - 1

\* lines 225-228: attn_output + attn_weightsi[..., None] * vi
AddValue(O, W, q_len, vi, i) ==
    LET col == WeightColumn(q_len, i)
    IN IF col > Cols(W) THEN Fail("index_error")
       ELSE LET n == Bc(Rows(W), vi.len)
                r == IF n = 0 THEN 0 ELSE Bc(Rows(O), n)
            IN IF r = 0 THEN Fail("shape_error")
               ELSE Ok([t \in 1..r |->
                         O[IF Rows(O) = 1 THEN 1 ELSE t]
                           \cup {Term(W[IF Rows(W) = 1 THEN 1 ELSE t][col], vi.call,
                                      IF vi.len = 1 THEN 1 ELSE t)}])

\* lines 224-228: the loop over the cached values 1..lck-1.
RECURSIVE ValuesLoop(_, _, _, _, _)
ValuesLoop(O, W, q_len, cache_v, i) ==
    IF i > Len(cache_v) THEN Ok(O)
    ELSE LET a == AddValue(O, W, q_len, cache_v[i], i)
         IN IF a.err # "" THEN a
            ELSE ValuesLoop(a.m, W, q_len, cache_v, i + 1)

\* lines 230-231: reshape(bsz, q_len, head_dim * num_heads)
Reshape(O, q_len) ==
    IF Rows(O) # q_len THEN Fail("shape_error") ELSE Ok(O)

\* lines 200-231: the attention arithmetic over the cache after the append.
CacheAttention(cache, q_len, mask) ==
    LET W0 == MatMulQK(q_len, cache.keys[1])
        W1 == AddMask(W0, mask)
    IN IF W1.err # "" THEN W1
       ELSE LET W2 == WeightsLoop(W1.m, q_len, cache.keys, 2)
            IN IF W2.err # "" THEN W2
               ELSE LET O0 == MatMulAV(AttnWeights0(W2.m, q_len), cache.values[1])
                    IN IF O0.err # "" THEN O0
                       ELSE LET O1 == ValuesLoop(O0.m, W2.m, q_len, cache.values, 2)
                            IN IF O1.err # "" THEN O1 ELSE Reshape(O1.m, q_len)

\* The outcome of one attention call: the cache after it, the rotary offset and
\* positions it used, and either the output rows or the error raised.
Outcome(mode, q_len, mask, lck, q_rot, cache, res) ==
    [mode |-> mode, q_len |-> q_len, mask |-> mask, lck |-> lck, q_rot |-> q_rot,
     cache |-> cache,
     status |-> IF res.err = "" THEN "returned" ELSE "error",
     err |-> res.err, out |-> res.m]

\* Qwen3Attention.forward, lines 188-233: cache-accumulation mode.
\* call: the index of this call among the calls made with this cache.
CacheBranch(cache, q_len, position_ids, mask, call) ==
    LET lck == CacheDepth(cache)
        rot == Rotary(position_ids, lck)
        key == [call |-> call, len |-> q_len, rot |-> rot]
        value == [call |-> call, len |-> q_len]
        cache1 == AppendStep(cache, key, value)
    IN Outcome("cache", q_len, mask, lck, rot, cache1, CacheAttention(cache1, q_len, mask))

\* Qwen3Attention.forward, lines 171-187 and 230-233: no-cache mode;
\* scaled_dot_product_attention with attn_mask, is_causal when the mask is None.
NoCacheBranch(q_len, position_ids, mask, call) ==
    LET rot == Rotary(position_ids, 0)
        m == IF mask.none THEN Mask(q_len, q_len) ELSE mask
        fits == Bc(q_len, m.rows) = q_len /\ Bc(q_len, m.cols) = q_len
        res == IF ~fits THEN Fail("shape_error")
               ELSE Ok([t \in 1..q_len |->
                         {Term([q |-> t, kcall |-> call, ktok |-> s, krot |-> rot[s],
                                masked |-> MaskedAt(m, t, s)], call, s) : s \in 1..q_len}])
    IN Outcome("nocache", q_len, mask, 0, rot, NoneCache, res)

\* Qwen3FlexAttention.forward line 272: lck = past_seen_tokens // q_len
FlexOffsetNoDiv(past_seen_tokens, q_len) == past_seen_tokens
FlexOffset(past_seen_tokens, q_len) == past_seen_tokens \div q_len

\* lines 282-287: past_key_values.update appends the q_len new positions.
PagedUpdate(seq_length, q_len) == seq_length + q_len

\* Qwen3FlexAttention.forward, lines 256-323.  past_present: past_key_values is
\* not None.  Line 258 lets past_seen_tokens be 0 for None; line 282 calls
\* past_key_values.update whatever it is.  The block-mask kernel is not modelled.
FlexBranch(past_present, past_len, q_len, position_ids, mask) ==
    LET past_seen_tokens == IF past_present THEN past_len ELSE 0
        lck == FlexOffset(past_seen_tokens, q_len)
        rot == Rotary(position_ids, lck)
    IN Outcome("flex", q_len, mask, lck, rot, NoneCache,
               IF past_present THEN Ok(<<>>) ELSE Fail("attribute_error"))

NoOutcome == Outcome("none", 0, NoMask, 0, <<>>, NoneCache, Ok(<<>>))

\* What the rollout history keeps of a call.
StepRecord(o, call) ==
    [mode |-> o.mode, q_len |-> o.q_len, lck |-> o.lck, status |-> o.status,
     key |-> [call |-> call, len |-> o.q_len, rot |-> o.q_rot]]

\* Every additive mask shape a caller can pass, and no mask at all.
Masks == {Mask(r, c) : r \in 1..MaxQLen, c \in 1..MaxQLen} \cup {NoMask}

\* The masks built for a step of q_len tokens: its causal mask, or none.
StepMasks(q_len) == {Mask(q_len, q_len), NoMask}

\* Qwen3DecoderLayer.forward -> Qwen3Attention.forward with the caller's cache
\* (Qwen3ForCausalLMEagle3.backbone, lines 464-483).
SdpaCacheStep(q_len, mask) ==
    /\ self_attn = "Qwen3Attention" /\ Len(steps) < MaxSteps
    /\ LET o == CacheBranch(cache_hidden, q_len, PositionIds(q_len), mask, Len(steps))
       IN /\ cache_hidden' = o.cache
          /\ attn' = o
          /\ steps' = Append(steps, StepRecord(o, Len(steps)))
    /\ UNCHANGED paged_len
    /\ UNCHANGED <<sampler_vars, model_vars>>

\* Qwen3Attention.forward called with cache_hidden=None during the rollout.
SdpaNoCacheStep(q_len, mask) ==
    /\ self_attn = "Qwen3Attention"
    /\ attn' = NoCacheBranch(q_len, PositionIds(q_len), mask, Len(steps))
    /\ UNCHANGED <<cache_hidden, paged_len, steps>>
    /\ UNCHANGED <<sampler_vars, model_vars>>

\* Qwen3FlexAttention.forward with the caller's paged cache.
FlexStep(q_len) ==
    /\ self_attn = "Qwen3FlexAttention" /\ Len(steps) < MaxSteps
    /\ LET o == FlexBranch(TRUE, paged_len, q_len, PositionIds(q_len), Mask(1, q_len))
       IN /\ attn' = o
          /\ steps' = Append(steps, StepRecord(o, Len(steps)))
    /\ paged_len' = PagedUpdate(paged_len, q_len)
    /\ UNCHANGED cache_hidden
    /\ UNCHANGED <<sampler_vars, model_vars>>

\* A rollout through the layer's backend with the masks built for each step.
AttnNext ==
    \/ \E q_len \in 1..MaxQLen : \E mask \in StepMasks(q_len) :
          SdpaCacheStep(q_len, mask)
    \/ \E q_len \in 1..MaxQLen : \E mask \in StepMasks(q_len) :
          SdpaNoCacheStep(q_len, mask)
    \/ \E q_len \in 1..MaxQLen : FlexStep(q_len)

\* Cache-mode calls with every query length and every mask shape.
ShapesNext ==
    \E q_len \in 1..MaxQLen, mask \in Masks : SdpaCacheStep(q_len, mask)

(***************************************************************************)
(*               qwen3_eagle.py: Qwen3ForCausalLMEagle3                    *)
(***************************************************************************)
MaxHidden == 2
MaxForward == 2
MaxTtt == 2

\* A Qwen3Config: has_target is hasattr(config, "target_hidden_size").
Config(hidden_size, has_target, target_hidden_size, attention_backend) ==
    [hidden_size |-> hidden_size, has_target |-> has_target,
     target_hidden_size |-> target_hidden_size,
     attention_backend |-> attention_backend]
NoConfig == Config(0, FALSE, 0, "")

NoForward ==
    [called |-> FALSE, status |-> "none", err |-> "", handed |-> FALSE,
     ttt_length |-> 0, width |-> 0, entry_cache |-> NoneCache, prior_depth |-> 0,
     backend |-> ""]
NoProject == [called |-> FALSE, status |-> "none", width |-> 0]

\* __init__ line 384: attention_backend defaults to "flex_attention".
Omitted == "<omitted>"
BackendArg(arg) == IF arg = Omitted THEN "flex_attention" ELSE arg

\* Qwen3DecoderLayer.__init__, lines 331-337.
SelectBackendFallback(attention_backend) ==
    IF attention_backend = "sdpa" THEN "Qwen3Attention" ELSE "Qwen3FlexAttention"
SelectBackend(attention_backend) ==
    IF attention_backend = "sdpa" THEN "Qwen3Attention"
    ELSE IF attention_backend = "flex_attention" THEN "Qwen3FlexAttention"
    ELSE "ValueError"

\* __init__ lines 394-397: in_features of fc.
FusionWidth(cfg) ==
    IF cfg.has_target THEN cfg.target_hidden_size * 3 ELSE cfg.hidden_size * 3

\* project_hidden_states line 457: the asserted width.
AssertedWidth(cfg) == cfg.hidden_size * 3

\* Qwen3ForCausalLMEagle3.__init__, lines 384-405.
Construct(cfg) ==
    /\ model = "none"
    /\ config' = cfg
    /\ LET layer == SelectBackend(cfg.attention_backend)
       IN IF layer = "ValueError"
          THEN /\ model' = "construct_error"
               /\ UNCHANGED <<self_attn, fc_in>>
          ELSE /\ model' = "constructed"
               /\ self_attn' = layer
               /\ fc_in' = FusionWidth(cfg)
    /\ UNCHANGED <<last_cache, fwd, n_forward, proj>>
    /\ UNCHANGED <<sampler_vars, attn_vars>>

\* forward lines 414-419: the cache of this call.  last: the previous call's cache.
ForwardCacheReused(ttt_length, last) ==
    IF ttt_length = 1 THEN NoneCache
    ELSE IF last.is_none THEN EmptyCache ELSE last
ForwardCache(ttt_length, last) ==
    IF ttt_length = 1 THEN NoneCache ELSE EmptyCache

\* Eagle3DraftModel.prepare_decoder_attention_mask with past_key_values_length=0:
\* the additive causal mask [batch, 1, seq_length, seq_length].
PrepareDecoderAttentionMask(seq_length) == Mask(seq_length, seq_length)

\* Qwen3DecoderLayer.forward lines 362-370: self.self_attn(...), past_key_values=None.
SelfAttn(layer, cache, q_len, position_ids, mask) ==
    IF layer = "Qwen3Attention"
    THEN IF cache.is_none THEN NoCacheBranch(q_len, position_ids, mask, 0)
         ELSE CacheBranch(cache, q_len, position_ids, mask, CacheDepth(cache))
    ELSE FlexBranch(FALSE, 0, q_len, position_ids, mask)

\* Qwen3ForCausalLMEagle3.forward, lines 407-451.  width: hidden_states.size(-1).
Forward(width, seq_length, ttt_length) ==
    /\ model = "constructed" /\ n_forward < MaxForward
    /\ n_forward' = n_forward + 1
    /\ LET cache == ForwardCache(ttt_length, last_cache)
           mask == PrepareDecoderAttentionMask(seq_length)
           rec == [called |-> TRUE, status |-> "error", err |-> "shape_error",
                   handed |-> FALSE, ttt_length |-> ttt_length, width |-> width,
                   entry_cache |-> cache, prior_depth |-> CacheDepth(last_cache),
                   backend |-> ""]
       IN IF width # fc_in
          THEN /\ fwd' = rec
               /\ last_cache' = cache
          ELSE LET o == SelfAttn(self_attn, cache, seq_length,
                                 PositionIds(seq_length), mask)
               IN /\ fwd' = [rec EXCEPT !.status = o.status, !.err = o.err,
                                        !.handed = TRUE, !.backend = self_attn]
                  /\ last_cache' = IF o.mode = "cache" THEN o.cache ELSE cache
    /\ UNCHANGED <<model, config, self_attn, fc_in, proj>>
    /\ UNCHANGED <<sampler_vars, attn_vars>>

\* project_hidden_states, lines 456-458.
ProjectHiddenStates(width) ==
    /\ model = "constructed"
    /\ proj' = [called |-> TRUE, width |-> width,
                status |-> IF width # AssertedWidth(config) THEN "assertion_error"
                           ELSE IF width # fc_in THEN "shape_error"
                           ELSE "returned"]
    /\ UNCHANGED <<model, config, self_attn, fc_in, last_cache, fwd, n_forward>>
    /\ UNCHANGED <<sampler_vars, attn_vars>>

BackendArgs == {"sdpa", "flex_attention", "eager", "SDPA", Omitted}
Configs ==
    {Config(h, FALSE, 0, BackendArg(b)) : h \in 1..MaxHidden, b \in BackendArgs}
    \cup {Config(h, TRUE, t, BackendArg(b)) :
            h \in 1..MaxHidden, t \in 1..MaxHidden, b \in BackendArgs}
Widths == {3 * h : h \in 1..MaxHidden}

ModelNext ==
    \/ \E cfg \in Configs : Construct(cfg)
    \/ \E width \in Widths, seq_length \in 1..MaxQLen, ttt_length \in 1..MaxTtt :
          Forward(width, seq_length, ttt_length)
    \/ \E width \in Widths : ProjectHiddenStates(width)

(***************************************************************************)
(*                           Specifications                                *)
(***************************************************************************)
ModelIdle ==
    /\ model = "none" /\ config = NoConfig /\ self_attn = "" /\ fc_in = 0
    /\ last_cache = NoneCache /\ fwd = NoForward /\ n_forward = 0 /\ proj = NoProject

AttnIdle ==
    /\ cache_hidden = EmptyCache /\ paged_len = 0 /\ steps = <<>> /\ attn = NoOutcome

InitSampler == SamplerStart /\ ModelIdle /\ AttnIdle

SpecSampler == InitSampler /\ [][SamplerNext]_vars
InitRerun == RerunStart /\ ModelIdle /\ AttnIdle
SpecRerun == InitRerun /\ [][RerunNext]_vars

InitModel == SamplerIdle /\ ModelIdle /\ AttnIdle

SpecModel == InitModel /\ [][ModelNext]_vars

\* A decoder layer constructed with either backend, at the start of a rollout:
\* the caller's cache is a fresh empty pair, the paged cache is empty.
InitAttn ==
    /\ SamplerIdle /\ AttnIdle
    /\ \E b \in {"sdpa", "flex_attention"} :
          /\ model = "constructed"
          /\ config = Config(1, FALSE, 0, b)
          /\ self_attn = SelectBackend(b)
          /\ fc_in = FusionWidth(Config(1, FALSE, 0, b))
    /\ last_cache = NoneCache /\ fwd = NoForward /\ n_forward = 0 /\ proj = NoProject

SpecAttn == InitAttn /\ [][AttnNext]_vars

InitShapes == InitAttn /\ self_attn = "Qwen3Attention"

SpecShapes == InitShapes /\ [][ShapesNext]_vars

(***************************************************************************)
(*                  Properties of the attention backends                   *)
(***************************************************************************)
CacheSteps == SelectSeq(steps, LAMBDA st : st.mode = "cache")
\* Every call of the rollout that used the caller's cache has returned.
AllReturned == \A i \in 1..Len(steps) : steps[i].status = "returned"

\* The latest call was in cache mode: it is the latest step of the rollout and
\* the cache it left is the caller's cache.
LastIsCacheStep ==
    /\ steps # <<>> /\ attn.mode = "cache" /\ steps[Len(steps)].mode = "cache"

\* C1 (state part): while every call made with the cache has returned, the key
\* list and the value list each hold one entry per cache-mode call, entry i being
\* the key/value the i-th such call produced.
C1_Inv ==
    (self_attn = "Qwen3Attention" /\ AllReturned) =>
        /\ Len(cache_hidden.keys) = Len(CacheSteps)
        /\ Len(cache_hidden.values) = Len(CacheSteps)
        /\ \A i \in 1..Len(CacheSteps) :
             /\ cache_hidden.keys[i] = CacheSteps[i].key
             /\ cache_hidden.values[i] =
                  [call |-> CacheSteps[i].key.call, len |-> CacheSteps[i].q_len]

\* C1 (step part): no call changes or reorders an entry an earlier call appended,
\* and a call in no-cache mode leaves the cache as it is.
C1_Step ==
    /\ Len(cache_hidden'.keys) >= Len(cache_hidden.keys)
    /\ \A i \in 1..Len(cache_hidden.keys) :
         /\ cache_hidden'.keys[i] = cache_hidden.keys[i]
         /\ cache_hidden'.values[i] = cache_hidden.values[i]
    /\ (attn'.mode = "nocache" =>
          /\ cache_hidden' = cache_hidden
          /\ attn'.cache = NoneCache)

\* C1: starting from a fresh empty pair, after k successful cache-mode calls the
\* key and value lists have length k, entry i is what the i-th call produced, no
\* call changes an earlier entry, and a no-cache call touches no cache.
C1_CacheAppendOnly == [](C1_Inv) /\ [][C1_Step]_vars

\* C1 witness: a no-cache call has returned after three successful cache-mode
\* calls of two tokens each, and the cache holds their three entries.
C1_Witness ==
    /\ Len(steps) = 3 /\ AllReturned
    /\ \A i \in 1..3 : steps[i].mode = "cache" /\ steps[i].q_len = 2
    /\ attn.mode = "nocache" /\ attn.status = "returned"
    /\ Len(cache_hidden.keys) = 3

\* The terms of an output row that carry a softmax weight (not masked to -inf),
\* as <<key step, key rotary position, value step>>.
Weighted(row) == {<<t.kcall, t.krot, t.vcall>> : t \in {u \in row : ~u.masked}}

\* C3: in a rollout of single-token cache-mode steps from an empty cache, step k
\* (counted from 0) rotates its query at position k, gives a softmax weight to
\* exactly the keys of steps 0..k, each rotated at its own step index and paired
\* with the value of the same step, and this is row k of one no-cache call over
\* the k+1 tokens under the causal mask.
C3_CacheEquivalence ==
    (/\ LastIsCacheStep
     /\ \A i \in 1..Len(steps) : steps[i].mode = "cache" /\ steps[i].q_len = 1
     /\ \A i \in 1..(Len(steps) - 1) : steps[i].status = "returned"
     /\ attn.mask = Mask(1, 1)) =>
        LET k == Len(steps) - 1
            n == k + 1
            full == NoCacheBranch(n, PositionIds(n), Mask(n, n), 0)
            fullRow == {<<t.ktok - 1, t.krot, t.vtok - 1>> :
                          t \in {u \in full.out[n] : ~u.masked}}
        IN /\ attn.status = "returned"
           /\ attn.q_rot = <<k>>
           /\ Len(attn.out) = 1
           /\ Cardinality(attn.out[1]) = n
           /\ Weighted(attn.out[1]) = {<<i, i, i>> : i \in 0..k}
           /\ \A t \in attn.out[1] : t.q = 1 /\ t.ktok = 1 /\ t.vtok = 1
           /\ full.status = "returned"
           /\ full.q_rot[n] = attn.q_rot[1]
           /\ Weighted(attn.out[1]) = fullRow

\* C3 witness: the third of three single-token steps.
C3_Witness ==
    /\ LastIsCacheStep /\ AllReturned /\ Len(steps) = 3
    /\ \A i \in 1..3 : steps[i].mode = "cache" /\ steps[i].q_len = 1
    /\ attn.mask = Mask(1, 1)
    /\ attn.q_rot = <<2>>

\* Steps 1..k all ran in the cache-keeping mode of the layer with one query length.
Uniform(k) ==
    \A i \in 1..k : steps[i].mode \in {"cache", "flex"} /\ steps[i].q_len = steps[k].q_len

\* C4: after k steps of one query length the rotary offset of the next step is k
\* in both backends: the cache depth before the append in Qwen3Attention, and
\* past_seen_tokens // q_len in Qwen3FlexAttention, whose paged cache has grown
\* by q_len per step; each backend's offset equals the one the other computes
\* from its own cache after the same steps.
C4_OffsetsAgree ==
    /\ \A k \in 1..Len(steps) : Uniform(k) => steps[k].lck = k - 1
    /\ (steps # <<>> /\ Uniform(Len(steps))) =>
          LET k == Len(steps)
              q == steps[k].q_len
          IN /\ self_attn = "Qwen3Attention" =>
                  /\ CacheDepth(cache_hidden) = k
                  /\ FlexOffset(k * q, q) = CacheDepth(cache_hidden)
             /\ self_attn = "Qwen3FlexAttention" =>
                  /\ paged_len = k * q
                  /\ FlexOffset(paged_len, q) = k

\* C4 witness: the third of three flex steps of two tokens each.
C4_Witness ==
    /\ self_attn = "Qwen3FlexAttention" /\ Len(steps) = 3
    /\ \A i \in 1..3 : steps[i].q_len = 2
    /\ attn.lck = 2 /\ paged_len = 6

\* C5: a cache-mode call whose query length differs from the length of the
\* step-0 entry already in the cache raises; it returns no attention output.
C5_MismatchFails ==
    (/\ LastIsCacheStep
     /\ Len(cache_hidden.keys) >= 2
     /\ attn.q_len # cache_hidden.keys[1].len) =>
        /\ attn.status = "error"
        /\ attn.out = <<>>

\* C5 witness: a single-token call on a cache whose step 0 had three tokens.
C5_Witness ==
    /\ LastIsCacheStep /\ Len(cache_hidden.keys) = 2
    /\ cache_hidden.keys[1].len = 3 /\ attn.q_len = 1
    /\ attn.mask = Mask(1, 1)
    /\ attn.status = "error"

(***************************************************************************)
(*                Properties of Qwen3ForCausalLMEagle3                     *)
(***************************************************************************)
\* C2: the cache a forward call hands to the decoder layer is None when
\* ttt_length = 1 and a fresh empty pair when ttt_length > 1, whatever cache an
\* earlier call left: the attention layer enters with depth 0.
C2_FreshCache ==
    (fwd.called /\ fwd.handed) =>
        /\ (fwd.ttt_length = 1 => fwd.entry_cache = NoneCache)
        /\ (fwd.ttt_length > 1 => fwd.entry_cache = EmptyCache)
        /\ CacheDepth(fwd.entry_cache) = 0
        /\ CacheDepth(last_cache) <= 1

\* C2 witness: a second call with ttt_length 2 after a call that filled its cache.
C2_Witness ==
    /\ n_forward = 2 /\ fwd.handed /\ fwd.ttt_length = 2 /\ fwd.prior_depth = 1
    /\ fwd.status = "returned"

\* C6: construction with a backend string other than "sdpa" or "flex_attention"
\* fails before any forward call; with either of them the layer holds the one
\* matching backend, and every forward call runs that backend.
C6_BackendSelection ==
    LET known == config.attention_backend \in {"sdpa", "flex_attention"}
        chosen == IF config.attention_backend = "sdpa" THEN "Qwen3Attention"
                  ELSE "Qwen3FlexAttention"
    IN /\ (model # "none") => (model = "construct_error" <=> ~known)
       /\ (model = "construct_error") =>
             /\ self_attn = "" /\ n_forward = 0 /\ ~fwd.called /\ ~proj.called
       /\ (model = "constructed") => self_attn = chosen
       /\ (fwd.called /\ fwd.handed) => (model = "constructed" /\ fwd.backend = chosen)

\* C6 witness: construction with the unknown backend "eager" has failed.
C6_Witness ==
    /\ model = "construct_error" /\ config.attention_backend = "eager"

\* C7 as stated: a forward call on a constructed model with well-shaped inputs
\* returns or raises a numeric/shape error.
C7_ForwardReturnsOrShapeError ==
    (fwd.called /\ fwd.width = fc_in) =>
        (fwd.status = "returned" \/ fwd.err = "shape_error")

\* C8 as stated: project_hidden_states accepts an input exactly when its last
\* dimension is 3 x target_hidden_size if the config has one, else 3 x hidden_size.
C8_ProjectAcceptsFusionWidth ==
    proj.called =>
        (proj.status = "returned" <=>
            proj.width = (IF config.has_target THEN 3 * config.target_hidden_size
                          ELSE 3 * config.hidden_size))

(***************************************************************************)
(*                     Properties of jsonl_sample.py                       *)
(***************************************************************************)
\* The raw lines that are JSON documents (stated apart from the code's validator).
JsonTexts == {"{}", "7"}

\* Positions of the first n input lines that count as valid under the validate flag.
ValidUpTo(n) == {i \in 1..n : ~args.validate \/ input[i] \in JsonTexts}

\* C9: when sample_fixed_size has returned and sample_size >= 0, the output file
\* holds exactly min(sample_size, number of valid lines) lines, taken verbatim
\* from strictly increasing (hence pairwise distinct) valid positions of the
\* input, whatever replacements were drawn.
C9_FixedSizeOutput ==
    (pc = "done" /\ args.mode = "fixed" /\ args.sample_size >= 0) =>
        LET out == out_file.lines
            valid == ValidUpTo(Len(input))
        IN /\ out_file.exists
           /\ Len(out) = Min(args.sample_size, Cardinality(valid))
           /\ Len(reservoir) = Len(out)
           /\ \A i \in 1..Len(out) :
                /\ reservoir[i][1] \in valid
                /\ out[i] = input[reservoir[i][1]]
           /\ \A i, j \in 1..Len(out) : i < j => reservoir[i][1] < reservoir[j][1]

\* C9 witness: a run over three valid lines with size 2 in which the third line
\* replaced the first slot of the reservoir.
C9_Witness ==
    /\ pc = "done" /\ args.mode = "fixed" /\ args.sample_size = 2
    /\ Len(input) = 3 /\ valid_seen = 3
    /\ draws = <<1>>
    /\ Len(out_file.lines) = 2

\* C10: every line read increments total_seen; with validate on only lines that
\* parse as JSON increment valid_seen and can enter the reservoir or the output;
\* with validate off valid = total; a file with N valid lines and one malformed
\* line sampled with size N yields the N valid lines and returns (N+1, N).
C10_MalformedSkipped ==
    (pc \in {"fixed_loop", "fraction_loop", "done"}) =>
        LET read == next_line - 1
            nvalid == Cardinality(ValidUpTo(Len(input)))
        IN /\ total_seen = read
           /\ valid_seen = Cardinality(ValidUpTo(read))
           /\ (~args.validate => valid_seen = total_seen)
           /\ (args.validate =>
                 /\ \A i \in 1..Len(reservoir) : reservoir[i][2] \in JsonTexts
                 /\ \A i \in 1..Len(out_file.lines) :
                      (args.mode = "fraction" \/ pc = "done") =>
                          out_file.lines[i] \in JsonTexts)
           /\ (/\ pc = "done" /\ args.mode = "fixed" /\ args.validate
               /\ Len(input) = nvalid + 1 /\ args.sample_size = nvalid) =>
                 /\ out_file.lines = SelectSeq(input, LAMBDA l : l \in JsonTexts)
                 /\ returned = <<nvalid + 1, nvalid>>

\* C10 witness: validate on, two valid lines around one malformed line, size 2.
C10_Witness ==
    /\ pc = "done" /\ args.mode = "fixed" /\ args.validate /\ args.sample_size = 2
    /\ input = <<"{}", "{x", "7">>
    /\ returned = <<3, 2>>
    /\ out_file.lines = <<"{}", "7">>

\* C11: a second run of sample_fixed_size or sample_fraction on the same input
\* with the same size or fraction, seed and validate flag writes the same
\* sequence of lines and returns the same counts as the first run, whatever
\* state the generator was in before either call.
C11_SameSeedSameSample ==
    (pc = "done" /\ prev.valid /\ args = prev.args) =>
        /\ out_file.lines = prev.lines
        /\ returned = prev.returned

\* C11 witness: the second of two runs with size 1 over three valid lines, in
\* which both later lines drew a replacement and the third line won.
C11_Witness ==
    /\ pc = "done" /\ prev.valid /\ args = prev.args
    /\ args.mode = "fixed" /\ args.sample_size = 1
    /\ input = <<"{}", "{}", "{x">> /\ ~args.validate
    /\ draws = <<2, 1>>
    /\ out_file.lines = <<"{x">>

\* The valid positions among the first n input lines, in input order.
ValidSeq(n) == SelectSeq([i \in 1..n |-> i], LAMBDA i : i \in ValidUpTo(n))

\* C12: a call of sample_fraction with a fraction outside (0, 1] stops at the
\* assertion with the output path untouched (neither created nor truncated);
\* otherwise there is exactly one draw per valid line read, in input order, the
\* output holds verbatim, in input order, exactly the valid lines whose draw is
\* below the fraction, written is the length of the output,
\* written <= valid_seen <= total_seen, fraction 1 keeps every valid line, and
\* the call returns (total_seen, valid_seen, written).
C12_FractionOutput ==
    (args.mode = "fraction") =>
        LET inrange == 0 < args.num /\ args.num <= FracDen
            vpos == ValidSeq(next_line - 1)
            kept == SelectSeq([k \in 1..Len(vpos) |-> k], LAMBDA k : draws[k] < args.num)
        IN /\ ~inrange =>
                /\ pc = "assert_error"
                /\ out_file \in {Absent, File(<<"stale">>)}
                /\ returned = <<>>
           /\ inrange =>
                /\ pc \in {"fraction_loop", "done", "exit"}
                /\ out_file.exists
                /\ Len(draws) = Len(vpos)
                /\ out_file.lines = [k \in 1..Len(kept) |-> input[vpos[kept[k]]]]
                /\ written = Len(out_file.lines)
                /\ written <= valid_seen /\ valid_seen <= total_seen
                /\ (args.num = FracDen => Len(out_file.lines) = Len(vpos))
                /\ (pc \in {"done", "exit"} =>
                      returned = <<total_seen, valid_seen, written>>)

\* C12 witness: fraction 1/FracDen with validate on; of two valid lines around
\* a malformed one the first draw is not below the fraction and the second is.
C12_Witness ==
    /\ pc = "done" /\ args.mode = "fraction" /\ args.num = 1 /\ args.validate
    /\ input = <<"{}", "{x", "7">>
    /\ draws = <<1, 0>>
    /\ out_file.lines = <<"7">>
    /\ returned = <<3, 2, 1>>

\* C13: when main has printed its summary of a fixed-size run, the printed count
\* min(size, valid) is the number of lines in the output file, and that number
\* is at most size, for every integer size including 0 and negative ones.
C13_PrintedIsWritten ==
    (pc = "exit" /\ args.mode = "fixed") =>
        /\ printed = Len(out_file.lines)
        /\ Len(out_file.lines) <= args.sample_size
====
